---- MODULE Spec2Model ----
(***************************************************************************)
(* ccd2iso: conversion of a CloneCD raw image (2352-byte sector records)   *)
(* into an ISO 9660 byte stream (the 2048-byte data field of each sector). *)
(*                                                                         *)
(* Byte strings are held run-length encoded: a sequence of runs            *)
(* [v |-> byte value, n |-> repeat count], n > 0, adjacent runs having     *)
(* different values.  Every operator below builds strings in that normal   *)
(* form, so equality of two encoded strings is equality of the bytes.      *)
(***************************************************************************)
EXTENDS Integers, Sequences, FiniteSets, TLC

(* ------------------------------ bounds --------------------------------- *)
MaxSectors == 3
MaxMainSectors == 3

(* --------------------------- byte strings ------------------------------ *)
Run(v, n) == [v |-> v, n |-> n]

BRep(v, n) == IF n = 0 THEN << >> ELSE << Run(v, n) >>

RECURSIVE BLen(_)
BLen(b) == IF b = << >> THEN 0 ELSE Head(b).n + BLen(Tail(b))

BCat(a, b) ==
    IF a = << >> THEN b
    ELSE IF b = << >> THEN a
    ELSE IF a[Len(a)].v = b[1].v
         THEN SubSeq(a, 1, Len(a) - 1)
                  \o << Run(b[1].v, a[Len(a)].n + b[1].n) >>
                  \o Tail(b)
         ELSE a \o b

RECURSIVE BTake(_, _)
BTake(b, k) ==
    IF k <= 0 \/ b = << >> THEN << >>
    ELSE IF Head(b).n <= k
         THEN << Head(b) >> \o BTake(Tail(b), k - Head(b).n)
         ELSE << Run(Head(b).v, k) >>

RECURSIVE BDrop(_, _)
BDrop(b, k) ==
    IF k <= 0 \/ b = << >> THEN b
    ELSE IF Head(b).n <= k
         THEN BDrop(Tail(b), k - Head(b).n)
         ELSE << Run(Head(b).v, Head(b).n - k) >> \o Tail(b)

\* bytes off .. off+n-1 (0-indexed), cut short at the end of the string
BSlice(b, off, n) == BTake(BDrop(b, off), n)

\* the byte at 0-indexed offset i
ByteAt(b, i) == Head(BDrop(b, i)).v

(* ---------------------- clonecd.py: sector layout ---------------------- *)
DATA_SIZE == 2048

\* ccd_sectheader_header: sectaddr_min, sectaddr_sec, sectaddr_frac, mode
ccd_sectheader_header == [size |-> 1 + 1 + 1 + 1, mode |-> 3]

\* ccd_sectheader: synchronization[12], header
ccd_sectheader ==
    [size |-> 12 + ccd_sectheader_header.size, header |-> 12]

\* ccd_mode1: data[DATA_SIZE], edc[4], unused[8], ecc[276]
ccd_mode1 == [size |-> DATA_SIZE + 4 + 8 + 276, data |-> 0]

\* slip: the mode 2 subheader declared 4 bytes long
ccd_mode2_ShortSubheader == [size |-> 4 + DATA_SIZE + 4 + 276, data |-> 4]

\* ccd_mode2: sectsubheader[8], data[DATA_SIZE], edc[4], ecc[276]
ccd_mode2 == [size |-> 8 + DATA_SIZE + 4 + 276, data |-> 8]

\* ccd_content: union of mode1 and mode2 (both members at offset 0)
ccd_content ==
    [size |-> IF ccd_mode1.size >= ccd_mode2.size
              THEN ccd_mode1.size ELSE ccd_mode2.size,
     mode1 |-> 0, mode2 |-> 0]

\* ccd_sector: sectheader, content
ccd_sector ==
    [size |-> ccd_sectheader.size + ccd_content.size,
     sectheader |-> 0, content |-> ccd_sectheader.size]

\* sizeof(ccd_sector)
sizeof_ccd_sector == ccd_sector.size

\* src_sect.sectheader.header.mode: a c_ubyte field reads as a Python int
HeaderMode(sect) ==
    [type |-> "int",
     val  |-> ByteAt(sect, ccd_sector.sectheader + ccd_sectheader.header
                              + ccd_sectheader_header.mode)]

\* src_sect.content.mode1.data
Mode1Data(sect) ==
    BSlice(sect, ccd_sector.content + ccd_content.mode1 + ccd_mode1.data,
           DATA_SIZE)

\* slip: the mode 2 data field read at the mode 1 offset (no subheader)
Mode2Data_NoSubheader(sect) ==
    BSlice(sect, ccd_sector.content + ccd_content.mode1 + ccd_mode1.data,
           DATA_SIZE)

\* src_sect.content.mode2.data
Mode2Data(sect) ==
    BSlice(sect, ccd_sector.content + ccd_content.mode2 + ccd_mode2.data,
           DATA_SIZE)

(* ------------------------- Python value model -------------------------- *)
PyInt(i) == [type |-> "int", val |-> i]

\* the literal b'\xe2'
SessionMarkerLiteral == [type |-> "bytes", val |-> << 226 >>]

\* Python ==: an int never equals a bytes object
PyEq(a, b) == a.type = b.type /\ a.val = b.val

(* ------------------------------ inputs --------------------------------- *)
\* one 2352-byte record: sync, address, mode byte, 2336 bytes of content.
\* The first and the last 8 bytes of the two data windows carry their own
\* values, so the mode 1 and the mode 2 windows of a record differ.
MkSector(mode, fill) ==
    BCat(BRep(255, 12),
    BCat(BRep(0, 3),
    BCat(BRep(mode, 1),
    BCat(BRep(17, 8),
    BCat(BRep(fill, DATA_SIZE - 8),
    BCat(BRep(34, 8),
         BRep(51, 4 + 276)))))))

SectorKinds ==
    { [mode |-> 1, fill |-> 171], [mode |-> 1, fill |-> 205],
      [mode |-> 2, fill |-> 171], [mode |-> 2, fill |-> 205],
      [mode |-> 226, fill |-> 171], [mode |-> 0, fill |-> 171],
      [mode |-> 3, fill |-> 171] }

\* lengths of the trailing partial record (0: none)
TailLens == { 0, 16, sizeof_ccd_sector - 1 }

RECURSIVE CatSectors(_)
CatSectors(ks) ==
    IF ks = << >> THEN << >>
    ELSE BCat(MkSector(Head(ks).mode, Head(ks).fill), CatSectors(Tail(ks)))

\* an image: whole records followed by the first r bytes of a mode 1 record
Image(ks, r) == BCat(CatSectors(ks), BTake(MkSector(1, 171), r))

ImagesOf(kinds, max) ==
    { Image(ks, r) : ks \in UNION { [1..n -> kinds] : n \in 0..max },
                     r \in TailLens }

Images(max) == ImagesOf(SectorKinds, max)

\* one record kind per mode
ModeKinds ==
    { [mode |-> 1, fill |-> 171], [mode |-> 2, fill |-> 205],
      [mode |-> 226, fill |-> 171], [mode |-> 0, fill |-> 171] }

\* the size argument as documented: None/0, or the size of src_file
Sizes(data) == { 0, BLen(data) }

\* any size argument: also the size of one record, whatever the stream holds
AnySizes(data) == Sizes(data) \cup { sizeof_ccd_sector }

\* byte counts a raw (unbuffered) destination may accept for one write
ShortCounts == { 0, DATA_SIZE \div 2 }

(* ------------------------------- state --------------------------------- *)
VARIABLES
    src_file,       \* [data, pos]: the source stream and its read offset
    dst_file,       \* the bytes the destination stream has accepted
    dst_raw,        \* TRUE: dst_file is a raw stream, write may be short
    progress,       \* convert's progress argument
    size,           \* convert's size argument (0 stands for None as well)
    max_value,      \* the progress bar's max_value
    sect_num,
    bytes_read,     \* the buffer returned by the last src_file.read
    src_sect,       \* the decoded ccd_sector
    payload,        \* the data field selected by the mode dispatch
    bytes_written,  \* the value returned by the last dst_file.write
    pc,             \* position in convert
    raised,         \* the exception convert raised
    updates,        \* the values passed to context.update, in order
    reads,          \* number of src_file.read calls
    writes,         \* number of dst_file.write calls
    mainpc,         \* position in main
    argv,           \* [img, force, quiet]: what the command line gives
    img_path,       \* what is at the .img path: a file, nothing, a directory
    limit,          \* the size the storage lets the temporary file grow to
    iso_exists,     \* a file exists at the .iso path
    iso_file,       \* the bytes of the file at the .iso path
    tmp_exists,     \* the temporary file exists
    tmp_file,       \* the bytes of the temporary file on the disk
    uncaught,       \* the exception that left main uncaught
    exit_code,      \* process exit status, -1 while running
    printed,        \* the messages main printed, in order
    run,            \* which call of convert this is (1 or 2)
    first           \* how the first call ended, once a second one started

evars == << src_file, dst_file, dst_raw, progress, size, max_value, sect_num,
            bytes_read, src_sect, payload, bytes_written, pc, raised,
            updates, reads, writes >>
mvars == << mainpc, argv, img_path, limit, iso_exists, iso_file, tmp_exists,
            tmp_file, uncaught, exit_code, printed, run, first >>
vars == << evars, mvars >>

\* no limit on the size of a file
Unlimited == [limited |-> FALSE, bytes |-> 0]

UnknownLength == [known |-> FALSE, value |-> 0]

\* no earlier call of convert
NoRun == [pc |-> "none", raised |-> << >>, dst |-> << >>, reopened |-> FALSE]

NoError == [kind |-> "none", origin |-> "none",
            index |-> -1, mode |-> -1, bytes |-> -1]

(* --------------------------- __init__.convert -------------------------- *)
\* max_value = int(size/expected_size) if size else progressbar.UnknownLength
MaxValueOf(sz) ==
    IF sz # 0 THEN [known |-> TRUE, value |-> sz \div sizeof_ccd_sector]
    ELSE UnknownLength

\* src_file.read(expected_size): up to expected_size bytes from the offset
ReadBytes(f, n) == BSlice(f.data, f.pos, n)

\* ccd_sector.from_buffer_copy(buf) raises ValueError on a short buffer
FromBufferCopyRaises(buf) == BLen(buf) < sizeof_ccd_sector

\* ccd_sector.from_buffer_copy(buf): a copy of the first sizeof bytes
FromBufferCopy(buf) == BTake(buf, sizeof_ccd_sector)

\* sizeof(src_sect): the size of the instance's type, whatever was read
SizeofInstance(sect) == sizeof_ccd_sector

\* the mode dispatch of lines 58-67
DispatchBranch(sect) ==
    IF PyEq(HeaderMode(sect), PyInt(1)) THEN "mode1"
    ELSE IF PyEq(HeaderMode(sect), PyInt(2)) THEN "mode2"
    ELSE IF PyEq(HeaderMode(sect), SessionMarkerLiteral) THEN "session"
    ELSE "unrecognized"

\* the byte counts dst_file.write may return for a buffer of n bytes
Accepts(raw, n) == IF raw THEN ShortCounts \cup { n } ELSE { n }

\* io.open gives the temporary file a buffer of the file's st_blksize bytes
BufferSize == 4096

\* BufferedRandom.write(b) with pending bytes in the buffer: b is copied
\* into the buffer when it fits, else the buffer is written out first
WriteFlushes(pending, n) == n > BufferSize - pending

\* writing the buffer out raises OSError when the file would grow beyond
\* what the storage allows
FlushRaises(lim, file) == lim.limited /\ BLen(file) > lim.bytes

\* the temporary file on the disk after the buffer of file was written out:
\* all of file, or as much of it as the storage allows
Flushed(lim, disk, file) ==
    IF ~FlushRaises(lim, file) THEN file
    ELSE IF BLen(disk) > lim.bytes THEN disk
    ELSE BTake(file, lim.bytes)

\* ProgressBar.update(value) raises ValueError outside 0..max_value
UpdateRaises(mv, value) == mv.known /\ ~(0 <= value /\ value <= mv.value)

\* the exceptions convert raises
BufferTooSmall(buf) ==
    [NoError EXCEPT !.kind = "ValueError", !.origin = "from_buffer_copy",
                    !.bytes = BLen(buf)]

IncompleteSectorError(n, sect) ==
    [NoError EXCEPT !.kind = "IncompleteSectorError", !.origin = "convert",
                    !.index = n, !.bytes = SizeofInstance(sect)]

SessionMarkerError ==
    [NoError EXCEPT !.kind = "SessionMarkerError", !.origin = "convert"]

\* slip: the sector reported by its 1-based number
UnrecognizedSectorModeError_OneBased(n, sect) ==
    [NoError EXCEPT !.kind = "UnrecognizedSectorModeError",
                    !.origin = "convert",
                    !.mode = HeaderMode(sect).val, !.index = n + 1]

UnrecognizedSectorModeError(n, sect) ==
    [NoError EXCEPT !.kind = "UnrecognizedSectorModeError",
                    !.origin = "convert",
                    !.mode = HeaderMode(sect).val, !.index = n]

ValueOutOfRange ==
    [NoError EXCEPT !.kind = "ValueError", !.origin = "update"]

\* slip: convert rewinds the source stream before it reads
ConvertStart_Rewind ==
    /\ pc = "Start"
    /\ sect_num' = 0
    /\ max_value' = MaxValueOf(size)
    /\ src_file' = [src_file EXCEPT !.pos = 0]
    /\ pc' = "Reading"
    /\ UNCHANGED << dst_file, dst_raw, progress, size, bytes_read,
                    src_sect, payload, bytes_written, raised, updates,
                    reads, writes >>
    /\ UNCHANGED mvars

\* lines 45-50: set-up, entering the with block
ConvertStart ==
    /\ pc = "Start"
    /\ sect_num' = 0
    /\ max_value' = MaxValueOf(size)
    /\ pc' = "Reading"
    /\ UNCHANGED << src_file, dst_file, dst_raw, progress, size, bytes_read,
                    src_sect, payload, bytes_written, raised, updates,
                    reads, writes >>
    /\ UNCHANGED mvars

\* slip: the stream offset is not moved by the read (the record is read again)
ReadSector_NoAdvance ==
    /\ pc = "Reading"
    /\ bytes_read' = ReadBytes(src_file, sizeof_ccd_sector)
    /\ reads' = reads + 1
    /\ pc' = IF bytes_read' = << >> THEN "Leaving" ELSE "Decoding"
    /\ UNCHANGED << src_file, dst_file, dst_raw, progress, size, max_value,
                    sect_num, src_sect, payload, bytes_written, raised,
                    updates, writes >>
    /\ UNCHANGED mvars

\* slip: a short read ends the loop like an empty one
ReadSector_ShortIsEnd ==
    /\ pc = "Reading"
    /\ bytes_read' = ReadBytes(src_file, sizeof_ccd_sector)
    /\ src_file' = [src_file EXCEPT !.pos = @ + BLen(bytes_read')]
    /\ reads' = reads + 1
    /\ pc' = IF BLen(bytes_read') < sizeof_ccd_sector THEN "Leaving"
             ELSE "Decoding"
    /\ UNCHANGED << dst_file, dst_raw, progress, size, max_value, sect_num,
                    src_sect, payload, bytes_written, raised, updates,
                    writes >>
    /\ UNCHANGED mvars

\* line 51: while bytes_read := src_file.read(expected_size)
ReadSector ==
    /\ pc = "Reading"
    /\ bytes_read' = ReadBytes(src_file, sizeof_ccd_sector)
    /\ src_file' = [src_file EXCEPT !.pos = @ + BLen(bytes_read')]
    /\ reads' = reads + 1
    /\ pc' = IF bytes_read' = << >> THEN "Leaving" ELSE "Decoding"
    /\ UNCHANGED << dst_file, dst_raw, progress, size, max_value, sect_num,
                    src_sect, payload, bytes_written, raised, updates,
                    writes >>
    /\ UNCHANGED mvars

\* lines 52-56: from_buffer_copy, then the sizeof test
DecodeSector ==
    /\ pc = "Decoding"
    /\ IF FromBufferCopyRaises(bytes_read)
       THEN /\ raised' = BufferTooSmall(bytes_read)
            /\ pc' = "Failed"
            /\ UNCHANGED src_sect
       ELSE IF SizeofInstance(FromBufferCopy(bytes_read)) < sizeof_ccd_sector
       THEN /\ raised' = IncompleteSectorError(sect_num,
                                                FromBufferCopy(bytes_read))
            /\ pc' = "Failed"
            /\ src_sect' = FromBufferCopy(bytes_read)
       ELSE /\ src_sect' = FromBufferCopy(bytes_read)
            /\ pc' = "Dispatching"
            /\ UNCHANGED raised
    /\ UNCHANGED << src_file, dst_file, dst_raw, progress, size, max_value,
                    sect_num, bytes_read, payload, bytes_written, updates,
                    reads, writes >>
    /\ UNCHANGED mvars

\* slip: the error of an unknown mode is reported and the loop goes on
DispatchMode_ReportAndGoOn ==
    /\ pc = "Dispatching"
    /\ LET branch == DispatchBranch(src_sect) IN
       CASE branch = "mode1" ->
              /\ payload' = Mode1Data(src_sect)
              /\ pc' = "Writing"
              /\ UNCHANGED raised
         [] branch = "mode2" ->
              /\ payload' = Mode2Data(src_sect)
              /\ pc' = "Writing"
              /\ UNCHANGED raised
         [] OTHER ->
              /\ raised' = UnrecognizedSectorModeError(sect_num, src_sect)
              /\ pc' = "Reading"
              /\ UNCHANGED payload
    /\ UNCHANGED << src_file, dst_file, dst_raw, progress, size, max_value,
                    sect_num, bytes_read, src_sect, bytes_written, updates,
                    reads, writes >>
    /\ UNCHANGED mvars

\* lines 58-67: the branch on src_sect.sectheader.header.mode
DispatchMode ==
    /\ pc = "Dispatching"
    /\ LET branch == DispatchBranch(src_sect) IN
       CASE branch = "mode1" ->
              /\ payload' = Mode1Data(src_sect)
              /\ pc' = "Writing"
              /\ UNCHANGED raised
         [] branch = "mode2" ->
              /\ payload' = Mode2Data(src_sect)
              /\ pc' = "Writing"
              /\ UNCHANGED raised
         [] branch = "session" ->
              /\ raised' = SessionMarkerError
              /\ pc' = "Failed"
              /\ UNCHANGED payload
         [] branch = "unrecognized" ->
              /\ raised' = UnrecognizedSectorModeError(sect_num, src_sect)
              /\ pc' = "Failed"
              /\ UNCHANGED payload
    /\ UNCHANGED << src_file, dst_file, dst_raw, progress, size, max_value,
                    sect_num, bytes_read, src_sect, bytes_written, updates,
                    reads, writes >>
    /\ UNCHANGED mvars

\* slip: the loop reads the next record before the payload is written
WritePayload_Deferred ==
    /\ pc = "Writing"
    /\ \E n \in Accepts(dst_raw, BLen(payload)) :
         /\ dst_file' = BCat(dst_file, BTake(payload, n))
         /\ bytes_written' = n
    /\ writes' = writes + 1
    /\ reads' = reads + 1
    /\ bytes_read' = ReadBytes(src_file, sizeof_ccd_sector)
    /\ src_file' = [src_file EXCEPT !.pos = @ + BLen(bytes_read')]
    /\ sect_num' = sect_num + 1
    /\ pc' = IF bytes_read' = << >> THEN "Leaving" ELSE "Decoding"
    /\ UNCHANGED << dst_raw, progress, size, max_value, src_sect, payload,
                    raised, updates >>
    /\ UNCHANGED mvars

\* lines 59/61: bytes_written = dst_file.write(<data field>); the temporary
\* file of main is buffered: a write that does not fit writes the buffer
\* out first, and raises OSError when the storage refuses that
WritePayload ==
    /\ pc = "Writing"
    /\ writes' = writes + 1
    /\ IF /\ tmp_exists
          /\ WriteFlushes(BLen(dst_file) - BLen(tmp_file), BLen(payload))
       THEN /\ tmp_file' = Flushed(limit, tmp_file, dst_file)
            /\ IF FlushRaises(limit, dst_file)
               THEN /\ raised' = [NoError EXCEPT !.kind = "OSError",
                                                 !.origin = "write"]
                    /\ pc' = "Failed"
                    /\ UNCHANGED << dst_file, bytes_written >>
               ELSE /\ dst_file' = BCat(dst_file, payload)
                    /\ bytes_written' = BLen(payload)
                    /\ pc' = "Advancing"
                    /\ UNCHANGED raised
       ELSE /\ \E n \in Accepts(dst_raw, BLen(payload)) :
                 /\ dst_file' = BCat(dst_file, BTake(payload, n))
                 /\ bytes_written' = n
            /\ pc' = "Advancing"
            /\ UNCHANGED << raised, tmp_file >>
    /\ UNCHANGED << src_file, dst_raw, progress, size, max_value, sect_num,
                    bytes_read, src_sect, payload, updates, reads >>
    /\ UNCHANGED << mainpc, argv, img_path, limit, iso_exists, iso_file,
                    tmp_exists, uncaught, exit_code, printed, run, first >>

\* line 69: sect_num += 1
Advance ==
    /\ pc = "Advancing"
    /\ sect_num' = sect_num + 1
    /\ pc' = "Updating"
    /\ UNCHANGED << src_file, dst_file, dst_raw, progress, size, max_value,
                    bytes_read, src_sect, payload, bytes_written, raised,
                    updates, reads, writes >>
    /\ UNCHANGED mvars

\* slip: context.update given the count of the sectors written before
UpdateProgress_OldCount ==
    /\ pc = "Updating"
    /\ IF progress
       THEN /\ updates' = Append(updates, sect_num - 1)
            /\ IF UpdateRaises(max_value, sect_num - 1)
               THEN /\ raised' = ValueOutOfRange
                    /\ pc' = "Failed"
               ELSE /\ pc' = "Reading"
                    /\ UNCHANGED raised
       ELSE /\ pc' = "Reading"
            /\ UNCHANGED << raised, updates >>
    /\ UNCHANGED << src_file, dst_file, dst_raw, progress, size, max_value,
                    sect_num, bytes_read, src_sect, payload, bytes_written,
                    reads, writes >>
    /\ UNCHANGED mvars

\* lines 71-72: if progress: context.update(sect_num)
UpdateProgress ==
    /\ pc = "Updating"
    /\ IF progress
       THEN /\ updates' = Append(updates, sect_num)
            /\ IF UpdateRaises(max_value, sect_num)
               THEN /\ raised' = ValueOutOfRange
                    /\ pc' = "Failed"
               ELSE /\ pc' = "Reading"
                    /\ UNCHANGED raised
       ELSE /\ pc' = "Reading"
            /\ UNCHANGED << raised, updates >>
    /\ UNCHANGED << src_file, dst_file, dst_raw, progress, size, max_value,
                    sect_num, bytes_read, src_sect, payload, bytes_written,
                    reads, writes >>
    /\ UNCHANGED mvars

\* lines 50-51: the read returned nothing, the loop ends, the with block is
\* left and convert returns
ConvertReturn ==
    /\ pc = "Leaving"
    /\ pc' = "Done"
    /\ UNCHANGED << src_file, dst_file, dst_raw, progress, size, max_value,
                    sect_num, bytes_read, src_sect, payload, bytes_written,
                    raised, updates, reads, writes >>
    /\ UNCHANGED mvars

NextConvert ==
    \/ ConvertStart
    \/ ReadSector
    \/ DecodeSector
    \/ DispatchMode
    \/ WritePayload
    \/ Advance
    \/ UpdateProgress
    \/ ConvertReturn

\* the state of a process that calls convert directly
InitEngineOn(images, raw, anysize) ==
    /\ \E data \in images :
         /\ src_file = [data |-> data, pos |-> 0]
         /\ size \in IF anysize THEN AnySizes(data) ELSE Sizes(data)
    /\ dst_file = << >>
    /\ dst_raw = raw
    /\ progress \in BOOLEAN
    /\ max_value = UnknownLength
    /\ sect_num = 0
    /\ bytes_read = << >>
    /\ src_sect = << >>
    /\ payload = << >>
    /\ bytes_written = 0
    /\ pc = "Start"
    /\ raised = NoError
    /\ updates = << >>
    /\ reads = 0
    /\ writes = 0
    /\ mainpc = "none"
    /\ argv = [img |-> FALSE, force |-> FALSE, quiet |-> FALSE]
    /\ img_path = "file"
    /\ limit = Unlimited
    /\ iso_exists = FALSE
    /\ iso_file = << >>
    /\ tmp_exists = FALSE
    /\ tmp_file = << >>
    /\ uncaught = "none"
    /\ exit_code = -1
    /\ printed = << >>
    /\ run = 1
    /\ first = NoRun

InitEngine(raw, anysize) == InitEngineOn(Images(MaxSectors), raw, anysize)

\* convert called as documented: dst_file a BytesIO, which takes every write
\* whole, and size the size of src_file (or left out)
Init == InitEngine(FALSE, FALSE)

Next == NextConvert

Spec == Init /\ [][Next]_vars

\* convert called as documented on images of one record kind per mode
InitFair == InitEngineOn(ImagesOf(ModeKinds, MaxSectors), FALSE, FALSE)

\* the interpreter keeps executing convert until it returns or raises
SpecFair == InitFair /\ [][Next]_vars /\ WF_vars(Next)

\* convert called with a raw destination stream
InitRaw == InitEngine(TRUE, FALSE)

SpecRaw == InitRaw /\ [][Next]_vars

\* convert called with any size argument
InitAnySize == InitEngine(FALSE, TRUE)

SpecAnySize == InitAnySize /\ [][Next]_vars

\* convert called a second time (line 36) with the same arguments and a
\* fresh, empty destination: the locals of the first call are gone; the
\* source is either a stream opened anew over the same bytes, or the stream
\* object of the first call, left where that call stopped reading
SecondRun ==
    /\ mainpc = "none"
    /\ run = 1
    /\ pc \in { "Done", "Failed" }
    /\ \E reopened \in BOOLEAN :
         /\ first' = [pc |-> pc, raised |-> raised, dst |-> dst_file,
                      reopened |-> reopened]
         /\ src_file' = IF reopened THEN [src_file EXCEPT !.pos = 0]
                        ELSE src_file
    /\ run' = 2
    /\ dst_file' = << >>
    /\ max_value' = UnknownLength
    /\ sect_num' = 0
    /\ bytes_read' = << >>
    /\ src_sect' = << >>
    /\ payload' = << >>
    /\ bytes_written' = 0
    /\ raised' = NoError
    /\ updates' = << >>
    /\ reads' = 0
    /\ writes' = 0
    /\ pc' = "Start"
    /\ UNCHANGED << dst_raw, progress, size >>
    /\ UNCHANGED << mainpc, argv, img_path, limit, iso_exists, iso_file,
                    tmp_exists, tmp_file, uncaught, exit_code, printed >>

NextTwice == NextConvert \/ SecondRun

SpecTwice == Init /\ [][NextTwice]_vars

\* convert as a function of its arguments: the loop of lines 51-72 from
\* offset pos with sect_num = n and out already written
RECURSIVE ConvertLoop(_, _, _, _, _, _)
ConvertLoop(data, pos, n, out, prog, mv) ==
    LET buf == ReadBytes([data |-> data, pos |-> pos], sizeof_ccd_sector)
        sect == FromBufferCopy(buf)
        branch == DispatchBranch(sect)
        data_field == IF branch = "mode1" THEN Mode1Data(sect)
                      ELSE Mode2Data(sect)
    IN  IF buf = << >> THEN [raised |-> NoError, dst |-> out]
        ELSE IF FromBufferCopyRaises(buf)
        THEN [raised |-> BufferTooSmall(buf), dst |-> out]
        ELSE IF SizeofInstance(sect) < sizeof_ccd_sector
        THEN [raised |-> IncompleteSectorError(n, sect), dst |-> out]
        ELSE IF branch = "session"
        THEN [raised |-> SessionMarkerError, dst |-> out]
        ELSE IF branch = "unrecognized"
        THEN [raised |-> UnrecognizedSectorModeError(n, sect), dst |-> out]
        ELSE IF prog /\ UpdateRaises(mv, n + 1)
        THEN [raised |-> ValueOutOfRange, dst |-> BCat(out, data_field)]
        ELSE ConvertLoop(data, pos + BLen(buf), n + 1,
                         BCat(out, data_field), prog, mv)

\* convert(src_file, dst_file, progress, size) on a fresh BytesIO destination
ConvertRun(data, prog, sz) ==
    ConvertLoop(data, 0, 0, << >>, prog, MaxValueOf(sz))

(* ---------------------------- __init__.main ---------------------------- *)
\* a file already at the .iso path before the run
OldIso == BRep(90, 10)

\* the status of a process that an uncaught KeyboardInterrupt ended: the
\* interpreter sends itself SIGINT
InterruptStatus == 130

\* what can be at the .img path
ImgPaths == { "file", "missing", "directory" }

\* the file size limits of the storage the temporary file is created on
FileSizeLimits ==
    { Unlimited } \cup { [limited |-> TRUE, bytes |-> n] : n \in { 1000, 5000 } }

\* the status main leaves with from each of its exit points: sys.exit(0) of
\* line 113, sys.exit(1) of lines 123, 133, 146 and 151, the return after
\* line 162
ExitStatus ==
    [help_exit |-> 0, missing_exit |-> 1, exists_exit |-> 1,
     handler_exit |-> 1, return |-> 0]

\* the messages of lines 159-161, by the position that prints them
RefusalMessage ==
    [refused_159 |-> "Error: Couldn't overwrite",
     refused_160 |-> "The .iso file might be mounted or marked read-only.",
     refused_161 |-> "contains the ISO data"]

\* the position after each of lines 159-161
AfterRefusal ==
    [refused_159 |-> "refused_160", refused_160 |-> "refused_161",
     refused_161 |-> "finished"]

\* lines 111-112: len(sys.argv) == 1, print the help
MainHelp ==
    /\ mainpc = "start"
    /\ ~argv.img /\ ~argv.force /\ ~argv.quiet
    /\ printed' = Append(printed, "help")
    /\ mainpc' = "help_exit"
    /\ UNCHANGED << argv, img_path, limit, iso_exists, iso_file, tmp_exists,
                    tmp_file, uncaught, exit_code, run, first >>
    /\ UNCHANGED evars

\* line 116: parser.parse_args() with options and no img: argparse writes
\* the usage to stderr and exits 2
MainParseError ==
    /\ mainpc = "start"
    /\ ~argv.img
    /\ argv.force \/ argv.quiet
    /\ exit_code' = 2
    /\ mainpc' = "exited"
    /\ UNCHANGED << argv, img_path, limit, iso_exists, iso_file, tmp_exists,
                    tmp_file, uncaught, printed, run, first >>
    /\ UNCHANGED evars

\* lines 119-122: open the source file; FileNotFoundError is caught and
\* reported, any other OSError (a directory at the path) is not caught
MainOpenSource ==
    /\ mainpc = "start"
    /\ argv.img
    /\ CASE img_path = "file" ->
              /\ mainpc' = "destination"
              /\ UNCHANGED << printed, exit_code, uncaught >>
         [] img_path = "missing" ->
              /\ printed' = Append(printed, "Error: Couldn't find the file")
              /\ mainpc' = "missing_exit"
              /\ UNCHANGED << exit_code, uncaught >>
         [] img_path = "directory" ->
              /\ uncaught' = "IsADirectoryError"
              /\ exit_code' = 1
              /\ mainpc' = "exited"
              /\ UNCHANGED printed
    /\ UNCHANGED << argv, img_path, limit, iso_exists, iso_file, tmp_exists,
                    tmp_file, run, first >>
    /\ UNCHANGED evars

\* slip: with --force the destination path itself is opened for writing
\* (truncated) instead of a temporary file beside it
MainSetUpDestination_OpenInPlace ==
    /\ mainpc = "destination"
    /\ IF iso_exists /\ ~argv.force
       THEN /\ printed' = Append(printed, "Error: already exists")
            /\ mainpc' = "exists_exit"
            /\ UNCHANGED << tmp_exists, tmp_file, dst_file, iso_exists,
                            iso_file >>
       ELSE /\ tmp_exists' = TRUE
            /\ tmp_file' = << >>
            /\ dst_file' = << >>
            /\ iso_exists' = TRUE
            /\ iso_file' = << >>
            /\ mainpc' = "call"
            /\ UNCHANGED printed
    /\ UNCHANGED << argv, img_path, limit, uncaught, exit_code, run, first >>
    /\ UNCHANGED << src_file, dst_raw, progress, size, max_value, sect_num,
                    bytes_read, src_sect, payload, bytes_written, pc, raised,
                    updates, reads, writes >>

\* lines 128-136: the exists/--force test and its message, else the
\* temporary file
MainSetUpDestination ==
    /\ mainpc = "destination"
    /\ IF iso_exists /\ ~argv.force
       THEN /\ printed' = Append(printed, "Error: already exists")
            /\ mainpc' = "exists_exit"
            /\ UNCHANGED << tmp_exists, tmp_file, dst_file >>
       ELSE /\ tmp_exists' = TRUE
            /\ tmp_file' = << >>
            /\ dst_file' = << >>
            /\ mainpc' = "call"
            /\ UNCHANGED printed
    /\ UNCHANGED << argv, img_path, limit, iso_exists, iso_file, uncaught,
                    exit_code, run, first >>
    /\ UNCHANGED << src_file, dst_raw, progress, size, max_value, sect_num,
                    bytes_read, src_sect, payload, bytes_written, pc, raised,
                    updates, reads, writes >>

\* lines 139-141: try: convert(src_file, dst_file, progress=not args.quiet,
\*                             size=os.path.getsize(args.img))
MainCallConvert ==
    /\ mainpc = "call"
    /\ progress' = ~argv.quiet
    /\ size' = BLen(src_file.data)
    /\ pc' = "Start"
    /\ mainpc' = "convert"
    /\ UNCHANGED << src_file, dst_file, dst_raw, max_value, sect_num,
                    bytes_read, src_sect, payload, bytes_written, raised,
                    updates, reads, writes >>
    /\ UNCHANGED << argv, img_path, limit, iso_exists, iso_file, tmp_exists,
                    tmp_file, uncaught, exit_code, printed, run, first >>

\* the user interrupts the process while convert runs (lines 140-141): the
\* KeyboardInterrupt is raised inside the try block.  The signal is handled
\* between two statements, or inside line 51 or 59/61 when the call has had
\* its effect and its result is not stored yet, or inside dst_file.write
\* when the buffer has been written out and the payload is not taken yet,
\* or as convert, having raised, leaves the with block (line 50), where the
\* KeyboardInterrupt takes the place of the exception raised
Interrupt ==
    /\ mainpc = "convert"
    /\ \/ /\ pc \in { "Start", "Reading", "Decoding", "Dispatching",
                      "Writing", "Advancing", "Updating", "Leaving" }
          /\ UNCHANGED << src_file, reads, dst_file, writes, tmp_file >>
       \/ /\ pc = "Reading"
          /\ src_file' = [src_file EXCEPT
                            !.pos = @ + BLen(ReadBytes(src_file,
                                                       sizeof_ccd_sector))]
          /\ reads' = reads + 1
          /\ UNCHANGED << dst_file, writes, tmp_file >>
       \/ /\ pc = "Writing"
          /\ WriteFlushes(BLen(dst_file) - BLen(tmp_file), BLen(payload))
          /\ tmp_file' = Flushed(limit, tmp_file, dst_file)
          /\ writes' = writes + 1
          /\ UNCHANGED << src_file, reads, dst_file >>
       \/ /\ pc = "Writing"
          /\ IF WriteFlushes(BLen(dst_file) - BLen(tmp_file), BLen(payload))
             THEN /\ ~FlushRaises(limit, dst_file)
                  /\ tmp_file' = dst_file
             ELSE UNCHANGED tmp_file
          /\ dst_file' = BCat(dst_file, payload)
          /\ writes' = writes + 1
          /\ UNCHANGED << src_file, reads >>
       \/ /\ pc = "Failed"
          /\ raised.kind # "KeyboardInterrupt"
          /\ UNCHANGED << src_file, reads, dst_file, writes, tmp_file >>
    /\ raised' = [NoError EXCEPT !.kind = "KeyboardInterrupt",
                                 !.origin = "signal"]
    /\ pc' = "Failed"
    /\ UNCHANGED << dst_raw, progress, size, max_value, sect_num, bytes_read,
                    src_sect, payload, bytes_written, updates >>
    /\ UNCHANGED << mainpc, argv, img_path, limit, iso_exists, iso_file,
                    tmp_exists, uncaught, exit_code, printed, run, first >>

\* the user interrupts the process while main is outside the try block
\* (before line 140, in an except clause, or from line 154 on): nothing
\* catches the KeyboardInterrupt; the interpreter, exiting, writes out the
\* buffer of a temporary file that is still open
InterruptMain ==
    /\ mainpc \notin { "none", "exited" }
    /\ mainpc = "convert" => pc \in { "Done", "Failed" }
    /\ uncaught' = "KeyboardInterrupt"
    /\ tmp_file' = IF tmp_exists THEN Flushed(limit, tmp_file, dst_file)
                   ELSE tmp_file
    /\ exit_code' = InterruptStatus
    /\ mainpc' = "exited"
    /\ UNCHANGED << argv, img_path, limit, iso_exists, iso_file, tmp_exists,
                    printed, run, first >>
    /\ UNCHANGED evars

\* line 51: src_file.read raises OSError
IOFault ==
    /\ mainpc = "convert"
    /\ pc = "Reading"
    /\ reads' = reads + 1
    /\ raised' = [NoError EXCEPT !.kind = "OSError", !.origin = "read"]
    /\ pc' = "Failed"
    /\ UNCHANGED << src_file, dst_file, dst_raw, progress, size, max_value,
                    sect_num, bytes_read, src_sect, payload, bytes_written,
                    updates, writes >>
    /\ UNCHANGED mvars

\* lines 142-143 and 147-148: the except clause that matches prints
MainHandleError ==
    /\ mainpc = "convert"
    /\ pc = "Failed"
    /\ printed' = Append(printed, IF raised.kind = "KeyboardInterrupt"
                                  THEN "Cancelled." ELSE raised.kind)
    /\ mainpc' = "handler_close"
    /\ UNCHANGED << argv, img_path, limit, iso_exists, iso_file, tmp_exists,
                    tmp_file, uncaught, exit_code, run, first >>
    /\ UNCHANGED evars

\* lines 144 and 149: dst_file.close() writes the buffer out; the OSError
\* of a refused write is not caught
MainHandleClose ==
    /\ mainpc = "handler_close"
    /\ tmp_file' = Flushed(limit, tmp_file, dst_file)
    /\ IF FlushRaises(limit, dst_file)
       THEN /\ uncaught' = "OSError"
            /\ exit_code' = 1
            /\ mainpc' = "exited"
       ELSE /\ mainpc' = "handler_remove"
            /\ UNCHANGED << uncaught, exit_code >>
    /\ UNCHANGED << argv, img_path, limit, iso_exists, iso_file, tmp_exists,
                    printed, run, first >>
    /\ UNCHANGED evars

\* lines 145 and 150: os.remove(dst_file.name)
MainHandleRemove ==
    /\ mainpc = "handler_remove"
    /\ tmp_exists' = FALSE
    /\ tmp_file' = << >>
    /\ mainpc' = "handler_exit"
    /\ UNCHANGED << argv, img_path, limit, iso_exists, iso_file, uncaught,
                    exit_code, printed, run, first >>
    /\ UNCHANGED evars

\* lines 154-155: src_file.close(); dst_file.close(), which writes the
\* buffer out; the OSError of a refused write is not caught
MainClose ==
    /\ mainpc = "convert"
    /\ pc = "Done"
    /\ tmp_file' = Flushed(limit, tmp_file, dst_file)
    /\ IF FlushRaises(limit, dst_file)
       THEN /\ uncaught' = "OSError"
            /\ exit_code' = 1
            /\ mainpc' = "exited"
       ELSE /\ mainpc' = "replace"
            /\ UNCHANGED << uncaught, exit_code >>
    /\ UNCHANGED << argv, img_path, limit, iso_exists, iso_file, tmp_exists,
                    printed, run, first >>
    /\ UNCHANGED evars

\* slip: the temporary file removed when os.replace is refused
MainReplace_RemoveOnRefusal ==
    /\ mainpc = "replace"
    /\ \E denied \in BOOLEAN :
         IF denied
         THEN /\ mainpc' = "refused_159"
              /\ tmp_exists' = FALSE
              /\ tmp_file' = << >>
              /\ UNCHANGED << iso_exists, iso_file >>
         ELSE /\ iso_file' = tmp_file
              /\ iso_exists' = TRUE
              /\ tmp_exists' = FALSE
              /\ tmp_file' = << >>
              /\ mainpc' = "finished"
    /\ UNCHANGED << argv, img_path, limit, uncaught, exit_code, printed, run,
                    first >>
    /\ UNCHANGED evars

\* lines 156-158: os.replace(dst_file.name, args.iso); a PermissionError is
\* caught, the temporary file stays
MainReplace ==
    /\ mainpc = "replace"
    /\ \E denied \in BOOLEAN :
         IF denied
         THEN /\ mainpc' = "refused_159"
              /\ UNCHANGED << iso_exists, iso_file, tmp_exists, tmp_file >>
         ELSE /\ iso_file' = tmp_file
              /\ iso_exists' = TRUE
              /\ tmp_exists' = FALSE
              /\ tmp_file' = << >>
              /\ mainpc' = "finished"
    /\ UNCHANGED << argv, img_path, limit, uncaught, exit_code, printed, run,
                    first >>
    /\ UNCHANGED evars

\* lines 159-161: the three messages of the except PermissionError clause,
\* one print a step
MainReportRefusal ==
    /\ mainpc \in DOMAIN RefusalMessage
    /\ printed' = Append(printed, RefusalMessage[mainpc])
    /\ mainpc' = AfterRefusal[mainpc]
    /\ UNCHANGED << argv, img_path, limit, iso_exists, iso_file, tmp_exists,
                    tmp_file, uncaught, exit_code, run, first >>
    /\ UNCHANGED evars

\* line 162: print('Done.')
MainDone ==
    /\ mainpc = "finished"
    /\ printed' = Append(printed, "Done.")
    /\ mainpc' = "return"
    /\ UNCHANGED << argv, img_path, limit, iso_exists, iso_file, tmp_exists,
                    tmp_file, uncaught, exit_code, run, first >>
    /\ UNCHANGED evars

\* lines 113, 123, 133, 146, 151: sys.exit(status); after line 162: main
\* returns and the process exits 0
MainExit ==
    /\ mainpc \in DOMAIN ExitStatus
    /\ exit_code' = ExitStatus[mainpc]
    /\ mainpc' = "exited"
    /\ UNCHANGED << argv, img_path, limit, iso_exists, iso_file, tmp_exists,
                    tmp_file, uncaught, printed, run, first >>
    /\ UNCHANGED evars

\* the process is started from the command line
InitMain ==
    /\ \E data \in ImagesOf(ModeKinds, MaxMainSectors) :
         src_file = [data |-> data, pos |-> 0]
    /\ dst_file = << >>
    /\ dst_raw = FALSE
    /\ progress = FALSE
    /\ size = 0
    /\ max_value = UnknownLength
    /\ sect_num = 0
    /\ bytes_read = << >>
    /\ src_sect = << >>
    /\ payload = << >>
    /\ bytes_written = 0
    /\ pc = "Idle"
    /\ raised = NoError
    /\ updates = << >>
    /\ reads = 0
    /\ writes = 0
    /\ mainpc = "start"
    /\ argv \in [img : BOOLEAN, force : BOOLEAN, quiet : BOOLEAN]
    /\ img_path \in ImgPaths
    /\ limit \in FileSizeLimits
    /\ iso_exists \in BOOLEAN
    /\ iso_file = IF iso_exists THEN OldIso ELSE << >>
    /\ tmp_exists = FALSE
    /\ tmp_file = << >>
    /\ uncaught = "none"
    /\ exit_code = -1
    /\ printed = << >>
    /\ run = 1
    /\ first = NoRun

NextMain ==
    \/ MainHelp
    \/ MainParseError
    \/ MainOpenSource
    \/ MainSetUpDestination
    \/ MainCallConvert
    \/ NextConvert
    \/ Interrupt
    \/ InterruptMain
    \/ IOFault
    \/ MainHandleError
    \/ MainHandleClose
    \/ MainHandleRemove
    \/ MainClose
    \/ MainReplace
    \/ MainReportRefusal
    \/ MainDone
    \/ MainExit

SpecMain == InitMain /\ [][NextMain]_vars

(* =============================== claims =============================== *)
\* the source stream as the claims describe it: whole 2352-byte records,
\* the mode byte at offset 15, the data field at 16 (mode 1) or 24 (mode 2)
RecordCount(data) == BLen(data) \div 2352

TailBytes(data) == BLen(data) % 2352

RecordAt(data, i) == BSlice(data, i * 2352, 2352)

RecordMode(data, i) == ByteAt(RecordAt(data, i), 15)

RecordData(data, i) ==
    IF RecordMode(data, i) = 1 THEN BSlice(RecordAt(data, i), 16, 2048)
    ELSE BSlice(RecordAt(data, i), 24, 2048)

RECURSIVE PayloadsBefore(_, _)
PayloadsBefore(data, k) ==
    IF k = 0 THEN << >>
    ELSE BCat(PayloadsBefore(data, k - 1), RecordData(data, k - 1))

\* position of the first whole record whose mode is neither 1 nor 2
\* (the number of whole records when there is none)
FirstOther(data) ==
    CHOOSE k \in 0..RecordCount(data) :
        /\ \A j \in 0..(k - 1) : RecordMode(data, j) \in { 1, 2 }
        /\ k < RecordCount(data) => RecordMode(data, k) \notin { 1, 2 }

Terminated == pc \in { "Done", "Failed" }

\* C1: a stream of N whole mode 1 / mode 2 records converts without error
\* and the destination is the concatenation, in order, of the N data
\* fields, 2048*N bytes.
C1_WellFormedImage ==
    LET data == src_file.data
        N == RecordCount(data)
    IN  (Terminated /\ TailBytes(data) = 0 /\ FirstOther(data) = N)
        => /\ pc = "Done"
           /\ raised = NoError
           /\ dst_file = PayloadsBefore(data, N)
           /\ BLen(dst_file) = 2048 * N

\* a mode 1 record filled with 0xAB then a mode 2 record filled with 0xCD,
\* converted to the end
C1_Witness ==
    /\ pc = "Done"
    /\ src_file.data = BCat(MkSector(1, 171), MkSector(2, 205))
    /\ dst_file = BCat(BRep(17, 8), BCat(BRep(171, 2040),
                  BCat(BRep(205, 2040), BRep(34, 8))))

\* C2 (as claimed): k whole mode 1 / mode 2 records and a tail of r bytes,
\* 0 < r < 2352, end in IncompleteSectorError with index k and bytes_read r,
\* nothing written for the tail.
C2_IncompleteSector ==
    LET data == src_file.data
        k == RecordCount(data)
    IN  (Terminated /\ TailBytes(data) > 0 /\ FirstOther(data) = k)
        => /\ pc = "Failed"
           /\ raised.kind = "IncompleteSectorError"
           /\ raised.index = k
           /\ raised.bytes = TailBytes(data)
           /\ writes = k
           /\ BLen(dst_file) = 2048 * k

\* C3 (as claimed): when the first record that is neither mode 1 nor mode 2
\* is at position k and has mode 0xE2, convert ends in SessionMarkerError,
\* reads nothing further and the destination holds k payloads.
C3_SessionMarker ==
    LET data == src_file.data
        k == FirstOther(data)
    IN  (Terminated /\ k < RecordCount(data) /\ RecordMode(data, k) = 226)
        => /\ pc = "Failed"
           /\ raised.kind = "SessionMarkerError"
           /\ reads = k + 1
           /\ dst_file = PayloadsBefore(data, k)
           /\ BLen(dst_file) = 2048 * k

\* C4: when the first record that is neither mode 1 nor mode 2 is at
\* position k and its mode m is not 0xE2 either, convert ends in
\* UnrecognizedSectorModeError reporting k and m, and the destination holds
\* the k payloads before it.
C4_UnrecognizedMode ==
    LET data == src_file.data
        k == FirstOther(data)
    IN  (Terminated /\ k < RecordCount(data)
           /\ RecordMode(data, k) \notin { 1, 2, 226 })
        => /\ pc = "Failed"
           /\ raised.kind = "UnrecognizedSectorModeError"
           /\ raised.index = k
           /\ raised.mode = RecordMode(data, k)
           /\ dst_file = PayloadsBefore(data, k)
           /\ BLen(dst_file) = 2048 * k

\* two payloads written, then a record of mode 0 rejected
C4_Witness ==
    /\ pc = "Failed"
    /\ raised.kind = "UnrecognizedSectorModeError"
    /\ raised.index = 2
    /\ raised.mode = 0
    /\ RecordMode(src_file.data, 2) = 0
    /\ BLen(dst_file) = 4096

\* C5 (as claimed): after a write that accepted fewer than 2048 bytes the
\* next step of convert is a failure, the sector count is not incremented.
C5_ShortWriteFails ==
    [][(pc = "Advancing" /\ bytes_written < 2048)
         => (pc' = "Failed" /\ sect_num' = sect_num)]_vars

\* C6 (as claimed): whatever the destination stream, at the loop head and
\* at termination the destination holds 2048 * sect_num bytes; sect_num is
\* set to 0 at the start, never decreases and grows by exactly 1, only
\* right after a payload write.
C6_CountInvariant ==
    /\ [][pc = "Start" => sect_num' = 0]_vars
    /\ [](pc \in { "Reading", "Leaving", "Done", "Failed" }
            => BLen(dst_file) = 2048 * sect_num)
    /\ [][/\ sect_num' >= sect_num
          /\ sect_num' # sect_num
               => /\ sect_num' = sect_num + 1
                  /\ pc = "Advancing"
                  /\ writes = sect_num']_vars

\* the file at the .iso path is as it was when the process started
IsoUntouched == iso_file = IF iso_exists THEN OldIso ELSE << >>

\* the temporary file was moved onto the .iso path
Renamed == ~tmp_exists /\ iso_exists /\ iso_file = dst_file

Printed(msg) == \E i \in DOMAIN printed : printed[i] = msg

\* C7: the file at the destination path changes only by the rename that
\* follows a successful convert; a run refused for want of --force creates
\* no temporary file and never calls convert; every run that ends otherwise
\* than by that rename leaves the file as it was.
C7_DestinationUntouched ==
    /\ [][(iso_file' # iso_file \/ iso_exists' # iso_exists)
            => /\ mainpc = "replace"
               /\ pc = "Done"
               /\ raised = NoError
               /\ uncaught = "none"
               /\ iso_exists'
               /\ iso_file' = dst_file]_vars
    /\ [](Printed("Error: already exists")
            => ~tmp_exists /\ pc = "Idle" /\ reads = 0 /\ writes = 0)
    /\ []((mainpc = "exited" /\ ~(pc = "Done" /\ Renamed)) => IsoUntouched)

\* a forced run over an existing file that wrote a payload to the temporary
\* file and then failed
C7_Witness ==
    /\ mainpc = "exited"
    /\ argv.force
    /\ iso_exists
    /\ iso_file = OldIso
    /\ pc = "Failed"
    /\ BLen(dst_file) = 2048
    /\ exit_code = 1

\* C8 (as claimed): at exit the temporary file has been renamed onto the
\* destination whenever convert succeeded and main ran to its end, and is
\* gone whenever convert raised, the run failed or the user cancelled.
C8_AsClaimed ==
    mainpc = "exited"
    => IF pc = "Done" /\ uncaught = "none" THEN Renamed ELSE ~tmp_exists

\* C9 (as claimed): a run given an image exits with 0 only when the
\* destination file was produced, so with a non-zero code on every failure.
C9_ExitCode ==
    (mainpc = "exited" /\ argv.img)
    => /\ exit_code = 0 => (pc = "Done" /\ Renamed)
       /\ exit_code >= 0

\* C10 (as claimed): the run with the other value of progress on the same
\* stream and size ends with the same exception (or none) and the same
\* destination bytes.
C10_ProgressAdvisory ==
    Terminated
    => LET other == ConvertRun(src_file.data, ~progress, size)
       IN  other.raised = raised /\ other.dst = dst_file

C12_OnlyEndOfStreamSucceeds ==
    /\ [][(pc' = "Leaving" /\ pc # "Leaving")
            => /\ pc = "Reading"
               /\ bytes_read' = << >>
               /\ src_file.pos = BLen(src_file.data)
               /\ reads' = reads + 1]_vars
    /\ [][(pc' = "Done" /\ pc # "Done") => pc = "Leaving"]_vars
    /\ [](pc = "Done" => raised = NoError)
    /\ [](pc = "Failed" => raised # NoError)
    /\ []((Terminated /\ src_file.data = << >>)
            => /\ pc = "Done"
               /\ reads = 1
               /\ writes = 0
               /\ dst_file = << >>)

\* the empty source converted
C12_Witness ==
    /\ pc = "Done"
    /\ src_file.data = << >>
    /\ reads = 1
    /\ writes = 0
    /\ dst_file = << >>

C14_NoLookahead ==
    /\ [](writes <= reads /\ reads <= writes + 1)
    /\ [](src_file.pos <= 2352 * (writes + 1))
    /\ [][reads' # reads => (reads' = reads + 1 /\ writes = reads)]_vars
    /\ [][writes' # writes
            => /\ writes' = writes + 1
               /\ reads' = reads
               /\ reads = writes + 1
               /\ BLen(bytes_read) = 2352
               /\ bytes_read = RecordAt(src_file.data, writes)
               /\ dst_file' = BCat(dst_file,
                                   RecordData(src_file.data, writes))]_vars

\* the third record read while two payloads are written
C14_Witness ==
    /\ pc = "Decoding"
    /\ reads = 3
    /\ writes = 2
    /\ BLen(dst_file) = 4096
    /\ BLen(bytes_read) = 2352

\* the sequence << 1, 2, ..., n >>
CountTo(n) == [i \in 1..n |-> i]

\* C15: with progress on, context.update is called once per written sector
\* with the new count, so it has received 1, 2, ..., n; call i comes after
\* write i and before read i+1; no call for a sector that failed or at the
\* end of the stream; with progress off it is never called.
C15_ProgressCalls ==
    /\ [](updates = CountTo(Len(updates)))
    /\ [](~progress => updates = << >>)
    /\ [](progress
            => Len(updates) = IF pc \in { "Advancing", "Updating" }
                              THEN writes - 1 ELSE writes)
    /\ [][updates' # updates
            => /\ pc = "Updating"
               /\ updates' = Append(updates, writes)
               /\ sect_num = writes
               /\ reads = writes
               /\ reads' = reads]_vars

\* two sectors written and reported, the next record rejected
C15_Witness ==
    /\ progress
    /\ pc = "Failed"
    /\ updates = << 1, 2 >>
    /\ writes = 2
    /\ reads = 3

\* the bytes a destination may hold: data bytes of the generated records
DataBytes == { 17, 34, 171, 205 }

\* C16: the payload is chosen by the byte at offset 15: record bytes
\* 16..2063 for mode 1, 24..2071 for mode 2; both content layouts are 2336
\* bytes and the record 2352; nothing but data bytes reaches the destination.
C16_PayloadWindow ==
    /\ ccd_mode1.size = 2336
    /\ ccd_mode2.size = 2336
    /\ ccd_sector.size = 2352
    /\ pc \in { "Writing", "Advancing" }
         => /\ ByteAt(src_sect, 15) \in { 1, 2 }
            /\ ByteAt(src_sect, 15) = 1 => payload = BSlice(src_sect, 16, 2048)
            /\ ByteAt(src_sect, 15) = 2 => payload = BSlice(src_sect, 24, 2048)
            /\ BLen(payload) = 2048
    /\ pc = "Advancing"
         => BSlice(dst_file, BLen(dst_file) - 2048, 2048) = payload
    /\ \A i \in DOMAIN dst_file : dst_file[i].v \in DataBytes

\* a mode 2 payload written after a mode 1 payload
C16_Witness ==
    /\ pc = "Advancing"
    /\ writes = 2
    /\ ByteAt(src_sect, 15) = 2
    /\ payload = BCat(BRep(205, 2040), BRep(34, 8))
    /\ dst_file = BCat(BRep(17, 8), BCat(BRep(171, 2040), payload))

\* C17: for a source of L bytes convert terminates, after at most
\* floor(L/2352) + 1 reads and floor(L/2352) writes; each read starts where
\* the one before ended, so no record is read twice.
C17_Terminates ==
    /\ <>Terminated
    /\ [](reads <= (BLen(src_file.data) \div 2352) + 1)
    /\ [](writes <= BLen(src_file.data) \div 2352)
    /\ [][reads' # reads
            => /\ src_file.pos = 2352 * reads
               /\ bytes_read' = BSlice(src_file.data, 2352 * reads, 2352)
               /\ src_file'.pos = src_file.pos + BLen(bytes_read')]_vars

\* three records converted with four reads and three writes
C17_Witness ==
    /\ pc = "Done"
    /\ BLen(src_file.data) = 3 * 2352
    /\ reads = 4
    /\ writes = 3

\* C18: when convert succeeded and os.replace was refused, the temporary
\* file is still there and holds the whole output, 2048 bytes per source
\* sector, and the file at the destination path is as it was.
C18_RefusedRenameKeepsOutput ==
    Printed("Error: Couldn't overwrite")
    => /\ pc = "Done"
       /\ tmp_exists
       /\ tmp_file = PayloadsBefore(src_file.data,
                                    RecordCount(src_file.data))
       /\ BLen(tmp_file) = 2048 * RecordCount(src_file.data)
       /\ BLen(src_file.data) = 2352 * RecordCount(src_file.data)
       /\ IsoUntouched

\* a two-sector image converted, the rename over an existing file refused
C18_Witness ==
    /\ mainpc = "exited"
    /\ Printed("Error: Couldn't overwrite")
    /\ tmp_exists
    /\ BLen(tmp_file) = 4096
    /\ iso_exists
    /\ iso_file = OldIso

====
